---------------------------- MODULE Spec2Model ----------------------------
(***************************************************************************)
(* A model of bimg's resizer (src/resizer.go) and of the VipsImage wrapper *)
(* (src/unnamed/part_000).                                                  *)
(*                                                                          *)
(* Native image handles live in the heap p.m.heap (a sequence of handle     *)
(* records, the handle being its index, 0 the nil pointer).  float64 values *)
(* are modelled as exact fractions <<num, den>>.  The libvips binding       *)
(* (vipsRotate, vipsExtract, vipsSave, ...) is not part of the sources: it  *)
(* is modelled from the adapter contract of the specification.              *)
(***************************************************************************)
EXTENDS Integers, Sequences, FiniteSets, TLC

VARIABLES pc, req, p, out, objs, caller

vars == <<pc, req, p, out, objs, caller>>

(***************************************************************************)
(* Bounds of the model.                                                     *)
(***************************************************************************)
MaxDim == 3
BigDim == 8
MaxCropDim == 5
MaxCalls == 4

(***************************************************************************)
(* Integer and float64 helpers.                                             *)
(***************************************************************************)
Min(a, b) == IF a <= b THEN a ELSE b
Max(a, b) == IF a >= b THEN a ELSE b

\* Go's integer division truncates toward zero.
Quot(a, b) == IF a >= 0 THEN a \div b ELSE -((-a) \div b)

\* float64 values as fractions <<n, d>>, d > 0 (d = 0: +Inf, never read).
Frac(n, d) == <<n, d>>
FLess(a, b) == a[1] * b[2] < b[1] * a[2]
FMin(a, b) == IF FLess(b, a) THEN b ELSE a
FMax(a, b) == IF FLess(a, b) THEN b ELSE a
FFloor(a) == a[1] \div a[2]
FIsZero(a) == a[1] = 0
FInv(a) == <<a[2], a[1]>>
FDivInt(a, k) == <<a[1], a[2] * k>>
FGeInt(a, k) == a[1] >= k * a[2]
FLtInt(a, k) == a[1] < k * a[2]

\* round half up of a non-negative fraction
FRound(a) == (2 * a[1] + a[2]) \div (2 * a[2])

roundFloat(f) ==
    IF f[1] < 0 THEN -((2 * (-f[1]) + f[2]) \div (2 * f[2]))
    ELSE (2 * f[1] + f[2]) \div (2 * f[2])

(***************************************************************************)
(* Gravity and calculateCrop.                                               *)
(***************************************************************************)
Gravities == {"Centre", "North", "East", "South", "West", "Smart", "Other"}

calculateCrop_NoRoundUp(inWidth, inHeight, outWidth, outHeight, gravity) ==
    CASE gravity = "North" -> <<Quot(inWidth - outWidth, 2), 0>>
      [] gravity = "East" -> <<inWidth - outWidth, Quot(inHeight - outHeight, 2)>>
      [] gravity = "South" -> <<Quot(inWidth - outWidth, 2), inHeight - outHeight>>
      [] gravity = "West" -> <<0, Quot(inHeight - outHeight, 2)>>
      [] OTHER -> <<Quot(inWidth - outWidth, 2), Quot(inHeight - outHeight, 2)>>

\* returns <<left, top>>
calculateCrop(inWidth, inHeight, outWidth, outHeight, gravity) ==
    CASE gravity = "North" -> <<Quot(inWidth - outWidth + 1, 2), 0>>
      [] gravity = "East" -> <<inWidth - outWidth, Quot(inHeight - outHeight + 1, 2)>>
      [] gravity = "South" -> <<Quot(inWidth - outWidth + 1, 2), inHeight - outHeight>>
      [] gravity = "West" -> <<0, Quot(inHeight - outHeight + 1, 2)>>
      [] OTHER -> <<Quot(inWidth - outWidth + 1, 2), Quot(inHeight - outHeight + 1, 2)>>

\* the clamp of the Crop branch of extractOrEmbedImage
ClampCrop(lt) == <<Max(lt[1], 0), Max(lt[2], 0)>>

(***************************************************************************)
(* Options (the fields the resizer reads) and image types.                  *)
(***************************************************************************)
JPEG == "JPEG"
WEBP == "WEBP"
PNG == "PNG"
UNKNOWN == "UNKNOWN"
MAGICK == "MAGICK"

ColorBlack == "black"
InterpretationSRGB == "sRGB"
Quality == 80

\* the zero value of Options
ZeroOptions ==
    [Width |-> 0, Height |-> 0, AreaWidth |-> 0, AreaHeight |-> 0,
     Top |-> 0, Left |-> 0, MaxWidth |-> 0, MaxHeight |-> 0,
     MinWidth |-> 0, MinHeight |-> 0, Zoom |-> 0,
     Force |-> FALSE, Crop |-> FALSE, Enlarge |-> FALSE, Embed |-> FALSE,
     Trim |-> FALSE, SmartCrop |-> FALSE, Gravity |-> "Centre",
     Rotate |-> 0, Flip |-> FALSE, Flop |-> FALSE, NoAutoRotate |-> FALSE,
     Interpolator |-> "bicubic", Background |-> ColorBlack,
     GaussianBlur |-> [Sigma |-> 0, MinAmpl |-> 0],
     Sharpen |-> [Radius |-> 0, Y2 |-> 0, Y3 |-> 0],
     Watermark |-> [Text |-> ""], WatermarkImage |-> [Buf |-> 0],
     Quality |-> 0, Compression |-> 0, Type |-> UNKNOWN, Interpretation |-> 0]

\* IsTypeSupported (type.go): the formats the build can write
IsTypeSupported(t) == t \in {JPEG, WEBP, PNG}

applyDefaults(o, imageType) ==
    [o EXCEPT !.Quality = IF @ = 0 THEN Quality ELSE @,
              !.Compression = IF @ = 0 THEN 6 ELSE @,
              !.Type = IF @ = UNKNOWN THEN imageType ELSE @,
              !.Interpretation = IF @ = 0 THEN InterpretationSRGB ELSE @]

\* the condition of normalizeOperation under which Force is switched on
ImpliesForce_IgnoresEmbed(o) ==
    ~o.Force /\ ~o.Crop /\ ~o.Enlarge /\ o.Rotate = 0
    /\ (o.Width > 0 \/ o.Height > 0)

ImpliesForce(o) ==
    ~o.Force /\ ~o.Crop /\ ~o.Embed /\ ~o.Enlarge /\ o.Rotate = 0
    /\ (o.Width > 0 \/ o.Height > 0)

\* one Max* clamp of normalizeOperation: the new target
ClampMax(target, limit, inDim) ==
    IF limit > 0 /\ inDim > limit
    THEN (IF target > 0 THEN (IF target > limit THEN limit ELSE target) ELSE limit)
    ELSE target

\* one Min* clamp of normalizeOperation: the new target
ClampMin(target, limit, inDim) ==
    IF limit > 0 /\ inDim < limit
    THEN (IF target > 0 THEN (IF target < limit THEN limit ELSE target) ELSE limit)
    ELSE target

normalizeOperation(o, inWidth, inHeight) ==
    LET o1 == IF ImpliesForce(o) THEN [o EXCEPT !.Force = TRUE] ELSE o
        o2 == [o1 EXCEPT !.Width = ClampMax(@, o1.MaxWidth, inWidth)]
        o3 == [o2 EXCEPT !.Height = ClampMax(@, o2.MaxHeight, inHeight)]
        o4 == [o3 EXCEPT !.Width = ClampMin(@, o3.MinWidth, inWidth)]
    IN  [o4 EXCEPT !.Height = ClampMin(@, o4.MinHeight, inHeight)]

shouldTransformImage(o, inWidth, inHeight) ==
    o.Force \/ (o.Width > 0 /\ o.Width # inWidth)
    \/ (o.Height > 0 /\ o.Height # inHeight) \/ o.AreaWidth > 0 \/ o.AreaHeight > 0
    \/ o.Trim

BlurWanted(o) == o.GaussianBlur.Sigma > 0 \/ o.GaussianBlur.MinAmpl > 0
SharpenWanted(o) == (o.Sharpen.Radius > 0 /\ o.Sharpen.Y2 > 0) \/ o.Sharpen.Y3 > 0

shouldApplyEffects(o) == BlurWanted(o) \/ SharpenWanted(o)

\* imageCalculations: returns [o |-> the options with the targets filled, factor |-> ...]
imageCalculations(o, inWidth, inHeight) ==
    LET xfactor == Frac(inWidth, o.Width)
        yfactor == Frac(inHeight, o.Height)
    IN  CASE o.Width > 0 /\ o.Height > 0 ->
               [o |-> o,
                factor |-> IF o.Crop THEN FMin(xfactor, yfactor) ELSE FMax(xfactor, yfactor)]
          [] o.Width > 0 /\ ~(o.Height > 0) ->
               IF o.Crop
               THEN [o |-> [o EXCEPT !.Height = inHeight], factor |-> Frac(1, 1)]
               ELSE [o |-> [o EXCEPT !.Height =
                                roundFloat(Frac(inHeight * xfactor[2], xfactor[1]))],
                     factor |-> xfactor]
          [] ~(o.Width > 0) /\ o.Height > 0 ->
               IF o.Crop
               THEN [o |-> [o EXCEPT !.Width = inWidth], factor |-> Frac(1, 1)]
               ELSE [o |-> [o EXCEPT !.Width =
                                roundFloat(Frac(inWidth * yfactor[2], yfactor[1]))],
                     factor |-> yfactor]
          [] OTHER ->
               [o |-> [o EXCEPT !.Width = inWidth, !.Height = inHeight],
                factor |-> Frac(1, 1)]

\* vipsWindowSize (vips.go): the interpolator's support window
vipsWindowSize(i) ==
    CASE i = "bicubic" -> 4 [] i = "bilinear" -> 2 [] OTHER -> 5

calculateShrink(factor, i) ==
    LET windowSize == vipsWindowSize(i)
        shrink == IF FGeInt(factor, 2) /\ windowSize > 3
                  THEN (factor[1] * 3) \div (factor[2] * windowSize)
                  ELSE FFloor(factor)
    IN  Max(shrink, 1)

calculateResidual(factor, shrink) == Frac(shrink * factor[2], factor[1])

\* the guard "do not enlarge" of process
NoEnlarge_EitherAxis(o, inWidth, inHeight) ==
    ~o.Enlarge /\ ~o.Force /\ (inWidth < o.Width \/ inHeight < o.Height)

NoEnlarge(o, inWidth, inHeight) ==
    ~o.Enlarge /\ ~o.Force /\ inWidth < o.Width /\ inHeight < o.Height

getAngle(angle) == Min(angle - (angle % 90), 270)

\* calculateRotationAndFlip: <<rotate, flip>> from the EXIF orientation
calculateRotationAndFlip(orientation, angle) ==
    IF angle > 0 THEN <<0, FALSE>>
    ELSE CASE orientation = 6 -> <<90, FALSE>>
           [] orientation = 3 -> <<180, FALSE>>
           [] orientation = 8 -> <<270, FALSE>>
           [] orientation = 2 -> <<0, TRUE>>
           [] orientation = 7 -> <<270, TRUE>>
           [] orientation = 4 -> <<180, TRUE>>
           [] orientation = 5 -> <<90, TRUE>>
           [] OTHER -> <<0, FALSE>>

(***************************************************************************)
(* The native heap and the libvips binding.                                 *)
(*                                                                          *)
(* A machine m is [heap, log, fails, trim, uaf]: heap[h] is the record of   *)
(* handle h with its release count rc; log lists the native calls made;     *)
(* fails is the set of native calls that fail when made (the environment's  *)
(* choice); trim is the border vips finds around the content; uaf records   *)
(* that a released handle was handed to a native call.                      *)
(* A native call returns [m, image, err], err = "" being Go's nil error.    *)
(***************************************************************************)
NoError == ""
NilImage == 0

Machine(h, fails, trim) ==
    [heap |-> h, log |-> <<>>, fails |-> fails, trim |-> trim, uaf |-> FALSE]

Released(m, h) == h # NilImage /\ m.heap[h].rc > 0

Touch(m, h) == [m EXCEPT !.uaf = @ \/ Released(m, h)]

Logged(m, op, ok) == [m EXCEPT !.log = Append(@, [op |-> op, ok |-> ok])]

\* g_object_unref
Unref(m, h) == IF h = NilImage THEN m ELSE [m EXCEPT !.heap[h].rc = @ + 1]

NewHandle(m) == Len(m.heap) + 1

Alloc(m, img) == [m EXCEPT !.heap = Append(@, [img EXCEPT !.rc = 0])]

\* a native call making a new image `img' out of handle h: on success the
\* input is released and the new handle returned; on failure the input is
\* left as it was and nil is returned
Native(m, op, h, valid, img) ==
    LET m1 == Touch(m, h)
    IN  IF h # NilImage /\ valid /\ op \notin m.fails
        THEN [m |-> Logged(Unref(Alloc(m1, img), h), op, TRUE),
              image |-> NewHandle(m1), err |-> NoError]
        ELSE [m |-> Logged(m1, op, FALSE), image |-> NilImage, err |-> op]

Sized(img, w, h) == [img EXCEPT !.w = w, !.h = h]

Rotated(img, angle) ==
    LET k == angle \div 90
    IN  [img EXCEPT !.w = IF k % 2 = 1 THEN img.h ELSE img.w,
                    !.h = IF k % 2 = 1 THEN img.w ELSE img.h,
                    !.rot = (img.rot + k) % 4]

\* Vertical: top-bottom mirror; Horizontal: left-right mirror
Flipped(img, direction) ==
    IF direction = "Vertical"
    THEN [img EXCEPT !.rot = (6 - img.rot) % 4, !.mir = ~img.mir]
    ELSE [img EXCEPT !.rot = (4 - img.rot) % 4, !.mir = ~img.mir]

vipsRotate(m, h, angle) == Native(m, "vipsRotate", h, TRUE, Rotated(m.heap[h], angle))

vipsFlip(m, h, direction) ==
    Native(m, IF direction = "Vertical" THEN "vipsFlip" ELSE "vipsFlop", h, TRUE,
           Flipped(m.heap[h], direction))

vipsZoom(m, h, zoom) ==
    Native(m, "vipsZoom", h, TRUE, Sized(m.heap[h], m.heap[h].w * zoom, m.heap[h].h * zoom))

vipsShrink(m, h, shrink) ==
    Native(m, "vipsShrink", h, TRUE,
           Sized(m.heap[h], Max(m.heap[h].w \div shrink, 1), Max(m.heap[h].h \div shrink, 1)))

\* the size of an image scaled by the fractions sx, sy
ScaledW(img, sx) == FRound(Frac(img.w * sx[1], sx[2]))
ScaledH(img, sy) == FRound(Frac(img.h * sy[1], sy[2]))

vipsReduce(m, h, xshrink, yshrink) ==
    Native(m, "vipsReduce", h,
           ScaledW(m.heap[h], FInv(xshrink)) >= 1 /\ ScaledH(m.heap[h], FInv(yshrink)) >= 1,
           Sized(m.heap[h], ScaledW(m.heap[h], FInv(xshrink)), ScaledH(m.heap[h], FInv(yshrink))))

vipsAffine(m, h, residualx, residualy) ==
    Native(m, "vipsAffine", h,
           ScaledW(m.heap[h], residualx) >= 1 /\ ScaledH(m.heap[h], residualy) >= 1,
           Sized(m.heap[h], ScaledW(m.heap[h], residualx), ScaledH(m.heap[h], residualy)))

vipsSmartCrop(m, h, width, height) ==
    Native(m, "vipsSmartCrop", h,
           width >= 1 /\ height >= 1 /\ width <= m.heap[h].w /\ height <= m.heap[h].h,
           Sized(m.heap[h], width, height))

vipsExtract(m, h, left, top, width, height) ==
    Native(m, "vipsExtract", h,
           /\ left >= 0 /\ top >= 0 /\ width >= 1 /\ height >= 1
           /\ left + width <= m.heap[h].w /\ top + height <= m.heap[h].h,
           Sized(m.heap[h], width, height))

vipsEmbed(m, h, left, top, width, height) ==
    Native(m, "vipsEmbed", h, width >= 1 /\ height >= 1, Sized(m.heap[h], width, height))

\* vipsTrim only measures: [m, box |-> <<left, top, width, height>>, err]
vipsTrim(m, h) ==
    LET m1 == Touch(m, h)
        img == m.heap[h]
    IN  IF "vipsTrim" \in m.fails
        THEN [m |-> Logged(m1, "vipsTrim", FALSE), box |-> <<0, 0, 0, 0>>, err |-> "vipsTrim"]
        ELSE [m |-> Logged(m1, "vipsTrim", TRUE),
              box |-> <<m.trim, m.trim, Max(img.w - 2 * m.trim, 0), Max(img.h - 2 * m.trim, 0)>>,
              err |-> NoError]

vipsGaussianBlur(m, h) == Native(m, "vipsGaussianBlur", h, TRUE, m.heap[h])
vipsSharpen(m, h) == Native(m, "vipsSharpen", h, TRUE, m.heap[h])
vipsWatermark(m, h) == Native(m, "vipsWatermark", h, TRUE, m.heap[h])
vipsDrawWatermark(m, h) == Native(m, "vipsDrawWatermark", h, TRUE, m.heap[h])
vipsFlattenBackground(m, h) == Native(m, "vipsFlattenBackground", h, TRUE, m.heap[h])

(***************************************************************************)
(* The stages of the pipeline.  Each returns [m, image, err] (and what else *)
(* the Go function returns).                                                *)
(***************************************************************************)
Ret(m, image, err) == [m |-> m, image |-> image, err |-> err]

ErrExtractAreaParamsRequired == "extract area width/height params are required"

\* the switch of extractOrEmbedImage: the first case that matches
SelectOp_EmbedFirst(o) ==
    CASE o.Gravity = "Smart" \/ o.SmartCrop -> "smartcrop"
      [] o.Embed -> "embed"
      [] o.Crop -> "crop"
      [] o.Trim -> "trim"
      [] o.Top # 0 \/ o.Left # 0 \/ o.AreaWidth # 0 \/ o.AreaHeight # 0 -> "area"
      [] OTHER -> "none"

SelectOp(o) ==
    CASE o.Gravity = "Smart" \/ o.SmartCrop -> "smartcrop"
      [] o.Crop -> "crop"
      [] o.Embed -> "embed"
      [] o.Trim -> "trim"
      [] o.Top # 0 \/ o.Left # 0 \/ o.AreaWidth # 0 \/ o.AreaHeight # 0 -> "area"
      [] OTHER -> "none"

\* the tail of extractOrEmbedImage: the input comes back with an error
OrInput(image, r) == IF r.err # NoError THEN [r EXCEPT !.image = image] ELSE r

extractOrEmbedImage(m, image, o) ==
    LET inWidth == m.heap[image].w
        inHeight == m.heap[image].h
        op == SelectOp(o)
    IN  CASE op = "smartcrop" ->
               OrInput(image, vipsSmartCrop(m, image, o.Width, o.Height))
          [] op = "crop" ->
               LET width == Min(inWidth, o.Width)
                   height == Min(inHeight, o.Height)
                   lt == ClampCrop(calculateCrop(inWidth, inHeight, o.Width, o.Height,
                                                 o.Gravity))
               IN  OrInput(image, vipsExtract(m, image, lt[1], lt[2], width, height))
          [] op = "embed" ->
               LET left == Quot(o.Width - inWidth, 2)
                   top == Quot(o.Height - inHeight, 2)
               IN  OrInput(image, vipsEmbed(m, image, left, top, o.Width, o.Height))
          [] op = "trim" ->
               \* "left, top, width, height, err := vipsTrim(...)" declares a new
               \* err in the case's scope: the function's err stays nil
               LET t == vipsTrim(m, image)
               IN  IF t.err = NoError
                   THEN LET e == vipsExtract(t.m, image, t.box[1], t.box[2], t.box[3],
                                             t.box[4])
                        IN  Ret(e.m, e.image, NoError)
                   ELSE Ret(t.m, image, NoError)
          [] op = "area" ->
               LET areaWidth == IF o.AreaWidth = 0 THEN o.Width ELSE o.AreaWidth
                   areaHeight == IF o.AreaHeight = 0 THEN o.Height ELSE o.AreaHeight
               IN  IF areaWidth = 0 \/ areaHeight = 0
                   THEN Ret(m, NilImage, "Extract area width/height params are required")
                   ELSE OrInput(image, vipsExtract(m, image, o.Left, o.Top, areaWidth,
                                                   areaHeight))
          [] OTHER -> Ret(m, image, NoError)

\* vipsExifOrientation reads the handle
vipsExifOrientation(m, image) == m.heap[image].exif

\* rotateAndFlipImage, lines 383-393: flip and flop run on whatever the
\* step before left, its error unread
FlipIf(wanted, r, direction) == IF wanted THEN vipsFlip(r.m, r.image, direction) ELSE r

WithRotated(r, rotated) ==
    [m |-> r.m, image |-> r.image, rotated |-> rotated, err |-> r.err]

\* rotateAndFlipImage: [m, image, rotated, err]
rotateAndFlipImage(m, image, o) ==
    LET rf == calculateRotationAndFlip(vipsExifOrientation(m, image), o.Rotate)
        flip == IF ~o.NoAutoRotate /\ rf[2] THEN TRUE ELSE o.Flip
        rotate == IF ~o.NoAutoRotate /\ rf[1] > 0 /\ o.Rotate = 0 THEN rf[1] ELSE o.Rotate
        m0 == IF ~o.NoAutoRotate THEN Touch(m, image) ELSE m
    IN  WithRotated(FlipIf(o.Flop,
                           FlipIf(flip,
                                  IF rotate > 0 THEN vipsRotate(m0, image, getAngle(rotate))
                                  ELSE Ret(m0, image, NoError),
                                  "Vertical"),
                           "Horizontal"),
                    rotate > 0 \/ flip \/ o.Flop)

\* getImageBuffer encodes the handle, which stays live: [m, buf, err]
getImageBuffer(m, image) ==
    LET m1 == Touch(m, image)
    IN  IF "getImageBuffer" \in m.fails
        THEN [m |-> Logged(m1, "getImageBuffer", FALSE), buf |-> <<>>,
              err |-> "getImageBuffer"]
        ELSE [m |-> Logged(m1, "getImageBuffer", TRUE),
              buf |-> [m.heap[image] EXCEPT !.rc = 0], err |-> NoError]

CeilDiv(a, b) == (a + b - 1) \div b

\* vipsShrinkJpeg / vipsShrinkWebp decode buf again, shrunk, and drop input
vipsShrinkLoad(m, op, buf, input, shrink) ==
    Native(m, op, input, TRUE, Sized(buf, CeilDiv(buf.w, shrink), CeilDiv(buf.h, shrink)))

\* shrinkOnLoad: [m, image, factor, err]
shrinkOnLoad(m, buf, input, imageType, factor, shrink) ==
    IF imageType = JPEG /\ shrink >= 2
    THEN LET sol == IF shrink >= 8 THEN 8 ELSE IF shrink >= 4 THEN 4 ELSE 2
             r == vipsShrinkLoad(m, "vipsShrinkJpeg", buf, input, sol)
         IN  [m |-> r.m, image |-> r.image, factor |-> FDivInt(factor, sol), err |-> r.err]
    ELSE IF imageType = WEBP
    THEN LET r == vipsShrinkLoad(m, "vipsShrinkWebp", buf, input, shrink)
         IN  [m |-> r.m, image |-> r.image, factor |-> factor, err |-> r.err]
    ELSE [m |-> m, image |-> NilImage, factor |-> Frac(0, 1),
          err |-> "doesn't support shrink on load"]

zoomImage(m, image, zoom) ==
    IF zoom = 0 THEN Ret(m, image, NoError) ELSE vipsZoom(m, image, zoom + 1)

\* shrinkImage: [m, image, residual, err]
shrinkImage(m, image, o, residual, shrink) ==
    LET r == vipsShrink(m, image, shrink)
    IN  IF r.err # NoError
        THEN [m |-> r.m, image |-> NilImage, residual |-> Frac(0, 1), err |-> r.err]
        ELSE LET residualx == Frac(o.Width, r.m.heap[r.image].w)
                 residualy == Frac(o.Height, r.m.heap[r.image].h)
             IN  [m |-> r.m, image |-> r.image,
                  residual |-> IF o.Crop THEN FMax(residualx, residualy)
                               ELSE FMin(residualx, residualy),
                  err |-> NoError]

\* transformImage, lines 257-264
transformShrink(m, image, o, shrink, residual) ==
    IF shrink > 1
    THEN OrInput(image, shrinkImage(m, image, o, residual, shrink))
    ELSE [m |-> m, image |-> image, residual |-> residual, err |-> NoError]

\* transformImage, lines 266-284
transformResize(m, image, o, residual) ==
    LET residualx == IF o.Force THEN Frac(o.Width, m.heap[image].w) ELSE residual
        residualy == IF o.Force THEN Frac(o.Height, m.heap[image].h) ELSE residual
    IN  IF o.Force \/ ~FIsZero(residual)
        THEN OrInput(image,
                     IF FLtInt(residualx, 1) /\ FLtInt(residualy, 1)
                     THEN vipsReduce(m, image, FInv(residualx), FInv(residualy))
                     ELSE vipsAffine(m, image, residualx, residualy))
        ELSE Ret(m, image, NoError)

\* transformImage, lines 286-296
transformExtract(m, image, o) ==
    OrInput(image,
            extractOrEmbedImage(m, image,
                                IF o.Force THEN [o EXCEPT !.Crop = FALSE, !.Embed = FALSE]
                                ELSE o))

ThenResize(s, o) ==
    IF s.err # NoError THEN Ret(s.m, s.image, s.err)
    ELSE transformResize(s.m, s.image, o, s.residual)

ThenExtract(a, o) == IF a.err # NoError THEN a ELSE transformExtract(a.m, a.image, o)

transformImage(m, image, o, shrink, residual) ==
    ThenExtract(ThenResize(transformShrink(m, image, o, shrink, residual), o), o)

\* applyEffects returns nil with the error
OrNil(r) == IF r.err # NoError THEN Ret(r.m, NilImage, r.err) ELSE r

ThenSharpen(b, o) ==
    IF b.err # NoError \/ ~SharpenWanted(o) THEN b ELSE OrNil(vipsSharpen(b.m, b.image))

applyEffects(m, image, o) ==
    ThenSharpen(IF BlurWanted(o) THEN OrNil(vipsGaussianBlur(m, image))
                ELSE Ret(m, image, NoError), o)

watermarkImageWithText(m, image, w) ==
    IF w.Text = "" THEN Ret(m, image, NoError) ELSE OrInput(image, vipsWatermark(m, image))

watermarkImageWithAnotherImage(m, image, w) ==
    IF w.Buf = 0 THEN Ret(m, image, NoError) ELSE vipsDrawWatermark(m, image)

imageFlatten(m, image, imageType, o) ==
    IF imageType # PNG \/ o.Background = ColorBlack THEN Ret(m, image, NoError)
    ELSE vipsFlattenBackground(m, image)

(***************************************************************************)
(* process, stage by stage.  The pipeline state p carries the machine, the  *)
(* working handle (once err is set: the handle process returns), the source *)
(* buffer, the options and the numbers computed from them.  reload records  *)
(* what shrink-on-load decoded (the buffer) against the working image it    *)
(* replaced.  A stage that fails ends process (pc goes to "return").        *)
(***************************************************************************)
EmptyBuf == [w |-> 0, h |-> 0, rot |-> 0, mir |-> FALSE, exif |-> 0, rc |-> 0]

Fail(q, m, image, err) == [q EXCEPT !.m = m, !.image = image, !.err = err]
Step(q, r) == [q EXCEPT !.m = r.m, !.image = r.image]

VipsMajorVersion == 8
VipsMinorVersion == 4

\* the pipeline state on entry to process
Enter(m, image0, imageType, o, buf) ==
    [m |-> m, image |-> image0, err |-> NoError, buf |-> buf, o |-> o,
     imageType |-> imageType, inWidth |-> 0, inHeight |-> 0, factor |-> Frac(1, 1),
     shrink |-> 1, residual |-> Frac(0, 1), noEnlarge |-> FALSE, reload |-> <<>>]

\* a stage's result: on an error process returns the handle `back'
Settle(q, r, back) == IF r.err # NoError THEN Fail(q, r.m, back, r.err) ELSE Step(q, r)

\* process, lines 53-58: after a rotation the buffer of a JPEG is encoded again
Refresh(q, rt, gb) ==
    IF gb.err # NoError
    THEN [Fail(q, gb.m, rt.image, gb.err) EXCEPT !.buf = EmptyBuf]
    ELSE [q EXCEPT !.m = gb.m, !.image = rt.image, !.buf = gb.buf]

Rotated0(q, rt) ==
    IF rt.err = NoError /\ rt.rotated /\ q.imageType = JPEG /\ ~q.o.NoAutoRotate
    THEN Refresh(q, rt, getImageBuffer(rt.m, rt.image))
    ELSE Settle(q, rt, q.image)

\* process, lines 42-58: output type, rotate and flip, buffer refresh
ProcRotate(q) ==
    IF ~IsTypeSupported(q.o.Type)
    THEN Fail(q, q.m, q.image, "Unsupported image output type")
    ELSE Rotated0(q, rotateAndFlipImage(q.m, q.image, q.o))

\* process, lines 60-81: the geometry
ProcCalc(q) ==
    LET inWidth == q.m.heap[q.image].w
        inHeight == q.m.heap[q.image].h
        ic == imageCalculations(normalizeOperation(q.o, inWidth, inHeight), inWidth, inHeight)
        shrink == calculateShrink(ic.factor, ic.o.Interpolator)
    IN  IF NoEnlarge(ic.o, inWidth, inHeight)
        THEN [q EXCEPT !.m = Touch(q.m, q.image),
                       !.inWidth = inWidth, !.inHeight = inHeight,
                       !.o = [ic.o EXCEPT !.Width = inWidth, !.Height = inHeight],
                       !.factor = Frac(1, 1), !.shrink = 1, !.residual = Frac(0, 1),
                       !.noEnlarge = TRUE]
        ELSE [q EXCEPT !.m = Touch(q.m, q.image),
                       !.inWidth = inWidth, !.inHeight = inHeight, !.o = ic.o,
                       !.factor = ic.factor, !.shrink = shrink,
                       !.residual = calculateResidual(ic.factor, shrink)]

\* process, lines 84-85: the source formats that can be decoded shrunk
SupportsShrinkOnLoad(imageType) ==
    (imageType = WEBP /\ VipsMajorVersion >= 8 /\ VipsMinorVersion >= 3) \/ imageType = JPEG

\* process, lines 87-95: the result of shrink-on-load
Reloaded(q, sl, factor) ==
    IF sl.err # NoError THEN Fail(q, sl.m, q.image, sl.err)
    ELSE [Step(q, sl) EXCEPT !.shrink = FFloor(factor),
                             !.residual = Frac(FFloor(factor) * factor[2], factor[1])]

\* process, lines 83-96: shrink-on-load
ProcShrinkOnLoad(q) ==
    IF SupportsShrinkOnLoad(q.imageType) /\ q.shrink >= 2
    THEN LET sl == shrinkOnLoad(q.m, q.buf, q.image, q.imageType, q.factor, q.shrink)
         IN  [Reloaded(q, sl, FMax(sl.factor, Frac(1, 1))) EXCEPT
                 !.reload = <<[buf |-> q.buf,
                               image |-> [q.m.heap[q.image] EXCEPT !.rc = 0]]>>]
    ELSE q

\* process, lines 98-102
ProcZoom(q) == Settle(q, zoomImage(q.m, q.image, q.o.Zoom), q.image)

\* process, lines 104-111
ProcTransform(q) ==
    IF shouldTransformImage(q.o, q.inWidth, q.inHeight)
    THEN Settle(q, transformImage(q.m, q.image, q.o, q.shrink, q.residual), q.image)
    ELSE q

\* process, lines 113-120
ProcEffects(q) ==
    IF shouldApplyEffects(q.o)
    THEN Settle(q, applyEffects(q.m, q.image, q.o), q.image)
    ELSE q

\* process, lines 128-132: the second watermark
ThenDrawWatermark(q, t) ==
    IF t.err # NoError THEN t
    ELSE Settle(t, watermarkImageWithAnotherImage(t.m, t.image, q.o.WatermarkImage),
                t.image)

\* process, lines 122-132
ProcWatermark(q) ==
    ThenDrawWatermark(q, Settle(q, watermarkImageWithText(q.m, q.image, q.o.Watermark),
                                q.image))

\* process, lines 134-140
ProcFlatten(q) == Settle(q, imageFlatten(q.m, q.image, q.imageType, q.o), q.image)

(***************************************************************************)
(* loadImage and saveImage.                                                 *)
(***************************************************************************)
\* vipsRead decodes the buffer into a new handle
loadImage(m, buf, bufType) ==
    IF buf.w = 0
    THEN [m |-> m, image |-> NilImage, imageType |-> JPEG, err |-> "Image buffer is empty"]
    ELSE IF "vipsRead" \in m.fails
    THEN [m |-> Logged(m, "vipsRead", FALSE), image |-> NilImage, imageType |-> JPEG,
          err |-> "vipsRead"]
    ELSE [m |-> Logged(Alloc(m, buf), "vipsRead", TRUE), image |-> NewHandle(m),
          imageType |-> bufType, err |-> NoError]

\* vipsSave encodes: on success the handle is replaced by the saved image's,
\* on failure the handle given comes back
vipsSave(m, image) ==
    LET r == Native(m, "vipsSave", image, TRUE, m.heap[image])
    IN  IF r.err # NoError THEN [r EXCEPT !.image = image] ELSE r

saveImage(m, image, o) ==
    LET r == vipsSave(m, image)
    IN  [m |-> Unref(r.m, r.image), err |-> r.err,
         bytes |-> IF r.err = NoError THEN [r.m.heap[r.image] EXCEPT !.rc = 0] ELSE EmptyBuf]

\* vipsCopy makes a new handle of the same image and leaves its input alone
vipsCopy(m, image) == Alloc(Touch(m, image), m.heap[image])

(***************************************************************************)
(* The requests the specifications draw from.                               *)
(***************************************************************************)
Image(w, h, exif) == [w |-> w, h |-> h, rot |-> 0, mir |-> FALSE, exif |-> exif, rc |-> 0]

NativeCalls ==
    {"vipsRead", "vipsRotate", "vipsFlip", "vipsFlop", "getImageBuffer", "vipsShrinkJpeg",
     "vipsShrinkWebp", "vipsZoom", "vipsShrink", "vipsReduce", "vipsAffine",
     "vipsSmartCrop", "vipsExtract", "vipsEmbed", "vipsTrim", "vipsGaussianBlur",
     "vipsSharpen", "vipsWatermark", "vipsDrawWatermark", "vipsFlattenBackground",
     "vipsSave"}

\* at most one native call fails, or the rotation together with another
FailChoices ==
    {{}} \cup {{c} : c \in NativeCalls}
    \cup {{"vipsRotate", c} : c \in {"vipsFlip", "vipsFlop", "vipsZoom"}}

Request(buf, bufType, o, fails, trim) ==
    [buf |-> buf, bufType |-> bufType, o |-> o, fails |-> fails, trim |-> trim]

\* one more option on top of a geometry request
Extras ==
    {"none", "rotate", "zoom", "trim", "top", "area", "smart", "east", "bilinear",
     "maxwidth", "minheight", "png"}

WithExtra(o, x) ==
    CASE x = "rotate" -> [o EXCEPT !.Rotate = 90]
      [] x = "zoom" -> [o EXCEPT !.Zoom = 1]
      [] x = "trim" -> [o EXCEPT !.Trim = TRUE]
      [] x = "top" -> [o EXCEPT !.Top = 1]
      [] x = "area" -> [o EXCEPT !.AreaWidth = 1, !.AreaHeight = 1]
      [] x = "smart" -> [o EXCEPT !.SmartCrop = TRUE]
      [] x = "east" -> [o EXCEPT !.Gravity = "East"]
      [] x = "bilinear" -> [o EXCEPT !.Interpolator = "bilinear"]
      [] x = "maxwidth" -> [o EXCEPT !.MaxWidth = 1]
      [] x = "minheight" -> [o EXCEPT !.MinHeight = 3]
      [] OTHER -> o

InDims == (1 .. MaxDim) \cup {BigDim}
OutDims == 0 .. MaxDim

GeomRequests ==
    {Request(Image(w, h, 1), IF x = "png" THEN PNG ELSE JPEG,
             WithExtra([ZeroOptions EXCEPT !.Width = ow, !.Height = oh, !.Crop = md[1],
                                           !.Embed = md[2], !.Force = md[3],
                                           !.Enlarge = md[4]], x),
             {}, 1) :
        w \in InDims, h \in InDims, ow \in OutDims, oh \in OutDims,
        md \in BOOLEAN \X BOOLEAN \X BOOLEAN \X BOOLEAN, x \in Extras}

\* the stages a request of the failure family switches on together
Decorated(o, on) ==
    IF on
    THEN [o EXCEPT !.Zoom = 1, !.GaussianBlur = [Sigma |-> 1, MinAmpl |-> 0],
                   !.Sharpen = [Radius |-> 0, Y2 |-> 0, Y3 |-> 1],
                   !.Watermark = [Text |-> "text"], !.WatermarkImage = [Buf |-> 1],
                   !.Background = "white"]
    ELSE o

Modes == {"plain", "crop", "embed", "trim"}

WithMode(o, mode) ==
    CASE mode = "crop" -> [o EXCEPT !.Crop = TRUE]
      [] mode = "embed" -> [o EXCEPT !.Embed = TRUE]
      [] mode = "trim" -> [o EXCEPT !.Trim = TRUE]
      [] OTHER -> o

Sources == {Image(MaxDim + 1, MaxDim + 1, 1), Image(MaxDim + 1, 2, 6)}

\* <<Rotate, Flip, Flop, NoAutoRotate>>
Turns ==
    {<<0, FALSE, FALSE, FALSE>>, <<90, FALSE, FALSE, FALSE>>, <<90, TRUE, FALSE, FALSE>>,
     <<90, FALSE, TRUE, FALSE>>, <<90, FALSE, FALSE, TRUE>>, <<0, TRUE, TRUE, FALSE>>}

FailRequests ==
    {Request(b, t,
             Decorated(WithMode([ZeroOptions EXCEPT !.Rotate = rt[1], !.Flip = rt[2],
                                                    !.Flop = rt[3], !.NoAutoRotate = rt[4],
                                                    !.Width = ow, !.Height = ow],
                                mode), dec),
             f, 1) :
        b \in Sources, t \in {JPEG, WEBP, PNG}, rt \in Turns, ow \in {0, 1},
        mode \in Modes, dec \in BOOLEAN, f \in FailChoices}
    \cup {Request(b, JPEG, [ZeroOptions EXCEPT !.Type = ty], {}, 1) :
            b \in Sources \cup {EmptyBuf}, ty \in {UNKNOWN, MAGICK, PNG}}

(***************************************************************************)
(* The pipeline, one action per stage of process.  caller is 0 for resizer  *)
(* and the index of the object for VipsImage.Process.                       *)
(***************************************************************************)
NoOut == [err |-> NoError, bytes |-> EmptyBuf]
Idle == Enter(Machine(<<>>, {}, 1), NilImage, JPEG, ZeroOptions, EmptyBuf)

InitWith(requests) ==
    /\ pc = "ready"
    /\ req \in requests
    /\ p = Idle
    /\ out = NoOut
    /\ objs = <<>>
    /\ caller = 0

After(q, next) == IF q.err # NoError THEN "return" ELSE next

StageRotate ==
    /\ pc = "rotate"
    /\ p' = ProcRotate(p)
    /\ pc' = After(p', "calc")
    /\ UNCHANGED <<req, out, objs, caller>>

StageCalc ==
    /\ pc = "calc"
    /\ p' = ProcCalc(p)
    /\ pc' = "shrinkonload"
    /\ UNCHANGED <<req, out, objs, caller>>

StageShrinkOnLoad ==
    /\ pc = "shrinkonload"
    /\ p' = ProcShrinkOnLoad(p)
    /\ pc' = After(p', "zoom")
    /\ UNCHANGED <<req, out, objs, caller>>

StageZoom ==
    /\ pc = "zoom"
    /\ p' = ProcZoom(p)
    /\ pc' = After(p', "transform")
    /\ UNCHANGED <<req, out, objs, caller>>

StageTransform ==
    /\ pc = "transform"
    /\ p' = ProcTransform(p)
    /\ pc' = After(p', "effects")
    /\ UNCHANGED <<req, out, objs, caller>>

StageEffects ==
    /\ pc = "effects"
    /\ p' = ProcEffects(p)
    /\ pc' = After(p', "watermark")
    /\ UNCHANGED <<req, out, objs, caller>>

StageWatermark ==
    /\ pc = "watermark"
    /\ p' = ProcWatermark(p)
    /\ pc' = After(p', "flatten")
    /\ UNCHANGED <<req, out, objs, caller>>

StageFlatten ==
    /\ pc = "flatten"
    /\ p' = ProcFlatten(p)
    /\ pc' = "return"
    /\ UNCHANGED <<req, out, objs, caller>>

(***************************************************************************)
(* resizer.                                                                 *)
(***************************************************************************)
\* resizer, lines 22-32: load, defaults, into process
ResizerLoad ==
    /\ pc = "ready"
    /\ LET ld == loadImage(Machine(<<>>, req.fails, req.trim), req.buf, req.bufType)
       IN  IF ld.err # NoError
           THEN /\ p' = [Idle EXCEPT !.m = ld.m, !.err = ld.err]
                /\ out' = [err |-> ld.err, bytes |-> EmptyBuf]
                /\ pc' = "done"
           ELSE /\ p' = Enter(ld.m, ld.image, ld.imageType,
                              applyDefaults(req.o, ld.imageType), req.buf)
                /\ out' = out
                /\ pc' = "rotate"
    /\ UNCHANGED <<req, objs, caller>>

\* resizer, lines 33-37: process has returned
ResizerReturn ==
    /\ pc = "return"
    /\ caller = 0
    /\ IF p.err # NoError
       THEN /\ out' = [err |-> p.err, bytes |-> EmptyBuf]
            /\ p' = p
       ELSE LET sv == saveImage(p.m, p.image, p.o)
            IN  /\ out' = [err |-> sv.err, bytes |-> sv.bytes]
                /\ p' = [p EXCEPT !.m = sv.m]
    /\ pc' = "done"
    /\ UNCHANGED <<req, objs, caller>>

Init == InitWith(FailRequests)

Next ==
    \/ ResizerLoad
    \/ StageRotate
    \/ StageCalc
    \/ StageShrinkOnLoad
    \/ StageZoom
    \/ StageTransform
    \/ StageEffects
    \/ StageWatermark
    \/ StageFlatten
    \/ ResizerReturn

Spec == Init /\ [][Next]_vars

InitGeom == InitWith(GeomRequests)
SpecGeom == InitGeom /\ [][Next]_vars

(***************************************************************************)
(* calculateCrop on its own: SpecCrop.                                      *)
(***************************************************************************)
CropDims == (0 .. MaxCropDim) \cup {30, 100}

CropRequests ==
    {[inWidth |-> iw, inHeight |-> ih, outWidth |-> ow, outHeight |-> oh, gravity |-> g] :
        iw \in CropDims, ih \in CropDims, ow \in CropDims, oh \in CropDims, g \in Gravities}

Crop ==
    /\ pc = "ready"
    /\ LET lt == calculateCrop(req.inWidth, req.inHeight, req.outWidth, req.outHeight,
                               req.gravity)
       IN  out' = [left |-> lt[1], top |-> lt[2], clamped |-> ClampCrop(lt)]
    /\ pc' = "done"
    /\ UNCHANGED <<req, p, objs, caller>>

InitCrop == InitWith(CropRequests)
NextCrop == Crop
SpecCrop == InitCrop /\ [][NextCrop]_vars

(***************************************************************************)
(* extractOrEmbedImage on its own: SpecSel.                                 *)
(***************************************************************************)
SelFails == {{}, {"vipsSmartCrop"}, {"vipsExtract"}, {"vipsEmbed"}, {"vipsTrim"}}

SelRequests ==
    {Request(Image(w, h, 1), JPEG,
             [ZeroOptions EXCEPT !.Gravity = g, !.SmartCrop = fl[1], !.Crop = fl[2],
                                 !.Embed = fl[3], !.Trim = fl[4], !.Width = wh[1],
                                 !.Height = wh[2], !.Top = ar[1], !.Left = ar[2],
                                 !.AreaWidth = ar[3], !.AreaHeight = ar[4]],
             f, tr) :
        w \in 1 .. MaxDim, h \in {MaxDim}, g \in {"Centre", "Smart", "East"},
        fl \in BOOLEAN \X BOOLEAN \X BOOLEAN \X BOOLEAN,
        wh \in {<<0, 0>>, <<2, 0>>, <<2, 2>>, <<MaxDim + 1, 2>>},
        ar \in {0, 1} \X {0, 1} \X {0, 2} \X {0, 1},
        f \in SelFails, tr \in {0, 1}}

Select ==
    /\ pc = "ready"
    /\ LET r == extractOrEmbedImage(Machine(<<req.buf>>, req.fails, req.trim), 1, req.o)
       IN  /\ out' = [err |-> r.err, image |-> r.image]
           /\ p' = [Idle EXCEPT !.m = r.m]
    /\ pc' = "done"
    /\ UNCHANGED <<req, objs, caller>>

InitSel == InitWith(SelRequests)
NextSel == Select
SpecSel == InitSel /\ [][NextSel]_vars

(***************************************************************************)
(* VipsImage objects: SpecObj.  objs[i] is [image, srcBuf, imageType] with  *)
(* usable (the constructor returned no error) and finalized (the object was *)
(* collected and its finalizer ran).  out.calls counts the calls made.      *)
(***************************************************************************)
ObjSources == {Image(MaxDim + 1, MaxDim + 1, 1), Image(2, MaxDim + 1, 6)}

ObjOptions ==
    {ZeroOptions,
     [ZeroOptions EXCEPT !.Rotate = 90],
     [ZeroOptions EXCEPT !.Width = 1, !.Height = 1],
     [ZeroOptions EXCEPT !.Rotate = 90, !.Zoom = 1],
     [ZeroOptions EXCEPT !.Type = MAGICK]}

ObjFails == {{}, {"vipsRotate"}, {"vipsZoom"}, {"vipsAffine"}}

MaxObjs == 2

\* the machine as a call finds it
MachineOf(fails) == [p.m EXCEPT !.log = <<>>, !.fails = fails]

Called(err) == out' = [calls |-> out.calls + 1, err |-> err]

Callable(i) ==
    /\ pc = "ready"
    /\ out.calls < MaxCalls
    /\ i \in 1 .. Len(objs)
    /\ objs[i].usable
    /\ ~objs[i].finalized

NewVipsImage ==
    /\ pc = "ready"
    /\ out.calls < MaxCalls
    /\ Len(objs) = 0
    /\ \E f \in {{}, {"vipsRead"}} :
         LET ld == loadImage(MachineOf(f), req.buf, req.bufType)
         IN  /\ objs' = Append(objs, [image |-> ld.image, srcBuf |-> req.buf,
                                      imageType |-> ld.imageType,
                                      usable |-> ld.err = NoError, finalized |-> FALSE])
             /\ p' = [p EXCEPT !.m = ld.m]
             /\ Called(ld.err)
    /\ UNCHANGED <<pc, req, caller>>

\* VipsImage.Process, lines 36-40: defaults, into process
ProcessCall(i, o, f) ==
    /\ Callable(i)
    /\ p' = Enter(MachineOf(f), objs[i].image, objs[i].imageType,
                  applyDefaults(o, objs[i].imageType), objs[i].srcBuf)
    /\ caller' = i
    /\ pc' = "rotate"
    /\ UNCHANGED <<req, out, objs>>

\* VipsImage.Process, lines 41-47: process has returned; it wrote srcBuf
\* through the pointer
ProcessReturn ==
    /\ pc = "return"
    /\ caller > 0
    /\ objs' = [objs EXCEPT ![caller].srcBuf = p.buf,
                            ![caller].image = IF p.err # NoError THEN @ ELSE p.image]
    /\ Called(p.err)
    /\ pc' = "ready"
    /\ caller' = 0
    /\ UNCHANGED <<req, p>>

Save(i, f) ==
    /\ Callable(i)
    /\ LET r == vipsSave(MachineOf(f), objs[i].image)
       IN  /\ objs' = [objs EXCEPT ![i].image = IF r.err # NoError THEN @ ELSE r.image]
           /\ p' = [p EXCEPT !.m = r.m]
           /\ Called(r.err)
    /\ UNCHANGED <<pc, req, caller>>

Clone(i) ==
    /\ Callable(i)
    /\ Len(objs) < MaxObjs
    /\ LET m == vipsCopy(MachineOf({}), objs[i].image)
       IN  /\ objs' = Append(objs, [objs[i] EXCEPT !.image = Len(m.heap)])
           /\ p' = [p EXCEPT !.m = m]
           /\ Called(NoError)
    /\ UNCHANGED <<pc, req, caller>>

\* the finalizer set by NewVipsImage and Clone, run once the object is garbage
Finalize(i) ==
    /\ pc = "ready"
    /\ i \in 1 .. Len(objs)
    /\ ~objs[i].finalized
    /\ objs' = [objs EXCEPT ![i].finalized = TRUE]
    /\ p' = [p EXCEPT !.m = Unref(p.m, objs[i].image)]
    /\ UNCHANGED <<pc, req, out, caller>>

ObjRequests == {Request(b, t, ZeroOptions, {}, 1) : b \in ObjSources, t \in {JPEG, WEBP}}

InitObj ==
    /\ pc = "ready"
    /\ req \in ObjRequests
    /\ p = Idle
    /\ out = [calls |-> 0, err |-> NoError]
    /\ objs = <<>>
    /\ caller = 0

NextObj ==
    \/ NewVipsImage
    \/ \E i \in 1 .. MaxObjs, o \in ObjOptions, f \in ObjFails : ProcessCall(i, o, f)
    \/ StageRotate
    \/ StageCalc
    \/ StageShrinkOnLoad
    \/ StageZoom
    \/ StageTransform
    \/ StageEffects
    \/ StageWatermark
    \/ StageFlatten
    \/ ProcessReturn
    \/ \E i \in 1 .. MaxObjs, f \in {{}, {"vipsSave"}} : Save(i, f)
    \/ \E i \in 1 .. MaxObjs : Clone(i)
    \/ \E i \in 1 .. MaxObjs : Finalize(i)

SpecObj == InitObj /\ [][NextObj]_vars

(***************************************************************************)
(* The properties.  "in" is the image process measures after its rotate     *)
(* stage (p.inWidth, p.inHeight); "out" is what resizer encodes.            *)
(***************************************************************************)
Succeeded == pc = "done" /\ out.err = NoError

BothTargets == req.o.Width > 0 /\ req.o.Height > 0

OutIs(w, h) == out.bytes.w = w /\ out.bytes.h = h

\* the operations logged by the native layer, in order
Ops == [i \in 1 .. Len(p.m.log) |-> p.m.log[i].op]

Failed == {i \in 1 .. Len(p.m.log) : ~p.m.log[i].ok}

\* C1 as stated: with both targets given, Crop, Force and Enlarge unset and the
\* input no larger than the target on either axis, a successful resizer
\* returns an image of the input's dimensions, whatever the other options.
C1_NeverUpscaled ==
    (/\ Succeeded /\ BothTargets
     /\ ~req.o.Crop /\ ~req.o.Force /\ ~req.o.Enlarge
     /\ p.inWidth <= req.o.Width /\ p.inHeight <= req.o.Height)
    => OutIs(p.inWidth, p.inHeight)

\* C1 amended: the same, for requests that normalizeOperation does not turn
\* into Force (Embed set or Rotate non-zero), whose input is strictly smaller
\* than the target on both axes, and that ask for no zoom, trim, area or
\* maximum size: the output has the input's dimensions.
C1_NeverUpscaledUnlessForced ==
    (/\ Succeeded /\ BothTargets
     /\ ~req.o.Crop /\ ~req.o.Force /\ ~req.o.Enlarge
     /\ (req.o.Embed \/ req.o.Rotate # 0)
     /\ p.inWidth < req.o.Width /\ p.inHeight < req.o.Height
     /\ req.o.Zoom = 0 /\ ~req.o.Trim /\ req.o.AreaWidth = 0 /\ req.o.AreaHeight = 0
     /\ req.o.MaxWidth = 0 /\ req.o.MaxHeight = 0)
    => OutIs(p.inWidth, p.inHeight)

\* an Embed request with a smaller input came back at the input's size
C1_SmallInputKept ==
    /\ Succeeded /\ BothTargets
    /\ req.o.Embed /\ ~req.o.Crop /\ ~req.o.Force /\ ~req.o.Enlarge /\ req.o.Rotate = 0
    /\ req.o.Zoom = 0 /\ ~req.o.Trim /\ req.o.AreaWidth = 0 /\ req.o.AreaHeight = 0
    /\ req.o.MaxWidth = 0 /\ req.o.MaxHeight = 0
    /\ p.inWidth < req.o.Width /\ p.inHeight < req.o.Height
    /\ p.noEnlarge
    /\ OutIs(req.buf.w, req.buf.h)

\* C2: when resizer has returned, every native handle allocated during the
\* call has been released exactly once.
C2_ReleasedExactlyOnce ==
    pc = "done" => \A h \in 1 .. Len(p.m.heap) : p.m.heap[h].rc = 1

\* C3: over NewVipsImage, Process, Save, Clone and finalizer runs no handle is
\* used or released after its release, and between calls the handle a usable
\* VipsImage holds is live.
C3_NoUseAfterRelease ==
    /\ ~p.m.uaf
    /\ \A h \in 1 .. Len(p.m.heap) : p.m.heap[h].rc <= 1
    /\ pc = "ready" =>
         \A i \in 1 .. Len(objs) :
            (objs[i].usable /\ ~objs[i].finalized) =>
                (objs[i].image # NilImage /\ p.m.heap[objs[i].image].rc = 0)

\* C4: when process returns after an operation failed, that operation was the
\* last one run, the error returned is its error, and the handle returned is
\* a live, non-nil handle.
C4_FailFast ==
    (pc = "return" /\ Failed # {}) =>
        /\ Failed = {Len(p.m.log)}
        /\ p.err = Ops[Len(p.m.log)]
        /\ p.image # NilImage
        /\ p.m.heap[p.image].rc = 0

\* C5: when extractOrEmbedImage takes the Trim branch and vipsTrim or the
\* extract that follows fails, it returns a non-nil error.
C5_TrimFailureReported ==
    (/\ pc = "done"
     /\ ~(req.o.Gravity = "Smart" \/ req.o.SmartCrop) /\ ~req.o.Crop /\ ~req.o.Embed
     /\ req.o.Trim
     /\ Failed # {})
    => out.err # NoError

\* C6: an area extraction (Top or Left set, no smart crop, Crop, Embed or
\* Trim) with AreaWidth, AreaHeight, Width and Height all zero fails through
\* resizer with ErrExtractAreaParamsRequired.
C6_AreaParamsRequired ==
    (/\ pc = "done"
     /\ (req.o.Top # 0 \/ req.o.Left # 0)
     /\ ~(req.o.Gravity = "Smart" \/ req.o.SmartCrop) /\ ~req.o.Crop /\ ~req.o.Embed
     /\ ~req.o.Trim
     /\ req.o.AreaWidth = 0 /\ req.o.AreaHeight = 0
     /\ req.o.Width = 0 /\ req.o.Height = 0)
    => out.err = ErrExtractAreaParamsRequired

\* C7 as stated: a successful Crop request yields (min(inW, W), min(inH, H))
\* and a successful Embed request yields (W, H), whatever Enlarge and Force.
C7_CropEmbedExact ==
    (Succeeded /\ BothTargets) =>
        /\ req.o.Crop => OutIs(Min(p.inWidth, req.o.Width), Min(p.inHeight, req.o.Height))
        /\ (req.o.Embed /\ ~req.o.Crop) => OutIs(req.o.Width, req.o.Height)

\* C7 amended: with Force unset, no zoom and no maximum or minimum sizes, a
\* successful Crop or Embed request yields the input's dimensions when Enlarge
\* is unset and the input is strictly smaller than the target on both axes,
\* and exactly (W, H) otherwise.
C7_CropEmbedExactOrKept ==
    (/\ Succeeded /\ BothTargets
     /\ ~req.o.Force /\ (req.o.Crop \/ req.o.Embed)
     /\ req.o.Zoom = 0
     /\ req.o.MaxWidth = 0 /\ req.o.MaxHeight = 0
     /\ req.o.MinWidth = 0 /\ req.o.MinHeight = 0)
    => IF ~req.o.Enlarge /\ p.inWidth < req.o.Width /\ p.inHeight < req.o.Height
       THEN OutIs(p.inWidth, p.inHeight)
       ELSE OutIs(req.o.Width, req.o.Height)

\* a larger input was cropped to the target
C7_CroppedToTarget ==
    /\ Succeeded /\ BothTargets
    /\ req.o.Crop /\ ~req.o.Force /\ ~req.o.Enlarge /\ req.o.Zoom = 0
    /\ req.o.MaxWidth = 0 /\ req.o.MinHeight = 0
    /\ p.inWidth > req.o.Width /\ p.inHeight >= req.o.Height
    /\ \E i \in 1 .. Len(Ops) : Ops[i] = "vipsExtract"
    /\ OutIs(req.o.Width, req.o.Height)

\* q is n / 2 rounded towards zero
IsHalfOf(n, q) ==
    IF n >= 0 THEN 2 * q <= n /\ n < 2 * q + 2 ELSE 2 * q >= n /\ n > 2 * q - 2

CentreLike == req.gravity \notin {"North", "East", "South", "West"}

\* C8 as stated: for gravity Centre and unrecognised gravities left and top
\* are (in - out + 1) / 2 rounded towards zero, 100 and 30 give left = 36,
\* and the clamped offsets are never negative.
C8_CentreOffsets36 ==
    pc = "done" =>
        /\ CentreLike => /\ IsHalfOf(req.inWidth - req.outWidth + 1, out.left)
                         /\ IsHalfOf(req.inHeight - req.outHeight + 1, out.top)
        /\ (CentreLike /\ req.inWidth = 100 /\ req.outWidth = 30) => out.left = 36
        /\ out.clamped[1] >= 0 /\ out.clamped[2] >= 0

\* C8 amended: the same with 100 and 30 giving left = 35.
C8_CentreOffsets ==
    pc = "done" =>
        /\ CentreLike => /\ IsHalfOf(req.inWidth - req.outWidth + 1, out.left)
                         /\ IsHalfOf(req.inHeight - req.outHeight + 1, out.top)
        /\ (CentreLike /\ req.inWidth = 100 /\ req.outWidth = 30) => out.left = 35
        /\ out.clamped[1] >= 0 /\ out.clamped[2] >= 0

\* calculateCrop ran on 100 and 30 with gravity Centre, and on a negative
\* difference that the clamp raised to 0
C8_Centre100by30 ==
    /\ pc = "done"
    /\ req.gravity = "Centre" /\ req.inWidth = 100 /\ req.outWidth = 30
    /\ req.inHeight = 0 /\ req.outHeight = MaxCropDim
    /\ out.left = 35 /\ out.top < 0 /\ out.clamped = <<35, 0>>

\* C9: extractOrEmbedImage runs at most one spatial operation, the first that
\* matches in the order smart crop, Crop, Embed, Trim, area extract; when none
\* matches it returns its input handle untouched with no error.
C9_SelectionPriority ==
    pc = "done" =>
        LET smart == req.o.Gravity = "Smart" \/ req.o.SmartCrop
            area == \/ req.o.Top # 0 \/ req.o.Left # 0
                    \/ req.o.AreaWidth # 0 \/ req.o.AreaHeight # 0
            spatial == {i \in 1 .. Len(Ops) :
                           Ops[i] \in {"vipsSmartCrop", "vipsExtract", "vipsEmbed"}}
        IN  /\ Cardinality(spatial) <= 1
            /\ CASE smart -> Ops = <<"vipsSmartCrop">>
                 [] ~smart /\ req.o.Crop ->
                      /\ Ops = <<"vipsExtract">>
                      /\ out.err = NoError =>
                           /\ p.m.heap[out.image].w = Min(req.buf.w, req.o.Width)
                           /\ p.m.heap[out.image].h = Min(req.buf.h, req.o.Height)
                 [] ~smart /\ ~req.o.Crop /\ req.o.Embed -> Ops = <<"vipsEmbed">>
                 [] ~smart /\ ~req.o.Crop /\ ~req.o.Embed /\ req.o.Trim ->
                      Ops \in {<<"vipsTrim">>, <<"vipsTrim", "vipsExtract">>}
                 [] ~smart /\ ~req.o.Crop /\ ~req.o.Embed /\ ~req.o.Trim /\ area ->
                      Ops \in {<<>>, <<"vipsExtract">>}
                 [] OTHER ->
                      /\ Ops = <<>>
                      /\ out.err = NoError
                      /\ out.image = 1
                      /\ p.m.heap = <<req.buf>>

\* Crop and Embed were both set, with Trim and an area: the crop ran
C9_CropBeforeEmbed ==
    /\ pc = "done"
    /\ req.o.Gravity # "Smart" /\ ~req.o.SmartCrop
    /\ req.o.Crop /\ req.o.Embed /\ req.o.Trim /\ req.o.AreaWidth # 0
    /\ Ops = <<"vipsExtract">>
    /\ out.err = NoError

\* C10: whenever shrink-on-load decodes the source buffer again, the buffer
\* encodes the image the working handle holds.
C10_BufferInSync ==
    \A i \in 1 .. Len(p.reload) : p.reload[i].buf = p.reload[i].image

=============================================================================
